---- MODULE Spec2Model ----
(***************************************************************************)
(* Model of the blog front-end: the article list page (pages/index.tsx)    *)
(* and the article detail page (pages/articles/[id].tsx).                  *)
(*                                                                         *)
(* JavaScript strings are sequences of characters, `undefined` and `null`  *)
(* are the tagged records Undefined and Null, and a string value is        *)
(* Str(<<...>>).  The content API is the environment: every reply it can   *)
(* give is drawn from a bounded set of bodies (items with a valid          *)
(* updatedAt, and a title and a content that are a string, null or         *)
(* missing).                                                               *)
(*                                                                         *)
(* The repository holds two versions of the detail page.  detailVersion    *)
(* "id_tsx" is pages/articles/[id].tsx (the paragraph renderer, no         *)
(* rehype-raw); "part_000" is the version with tags, thumbnail and         *)
(* rehype-raw.  The list page is pages/index.tsx; the version without the  *)
(* search box paginates the whole list (totalPagesNoSearch).               *)
(***************************************************************************)
EXTENDS Integers, Sequences, FiniteSets, TLC

VARIABLES
    page,          \* which page component is mounted: "list" or "detail"
    articles,      \* index.tsx useState articles
    viewMode,      \* index.tsx useState viewMode
    currentPage,   \* index.tsx useState currentPage
    searchQuery,   \* index.tsx useState searchQuery
    fetchState,    \* position of fetchArticles: mounted, pending, loaded, failed
    requests,      \* number of requests the mounted list page has issued
    response,      \* the reply of the content API to the list request
    lastCall,      \* the call of handlePageChange or of the search input's onChange
                   \* that made the latest update of the list page, if one did
    detailVersion, \* which version of pages/articles/[id].tsx serves the detail page
    params,        \* context.params of the detail request
    loaderState,   \* position of getServerSideProps: idle, requested, done
    detailRequest, \* the URL getServerSideProps fetched
    detailReply,   \* the reply of the content API to the detail request
    loaderResult,  \* what getServerSideProps gave back
    now,           \* the clock of the browser showing the detail page, in ms
    labels,        \* textContent of each copy button of the detail page
    timers,        \* the pending setTimeout callbacks of the copy buttons
    clipboard,     \* the text last written to the clipboard
    lastClick      \* when each copy button was last clicked, -1 if never

listVars == <<articles, viewMode, currentPage, searchQuery, fetchState, requests, response, lastCall>>

detailVars == <<params, loaderState, detailRequest, detailReply, loaderResult>>

copyVars == <<now, labels, timers, clipboard, lastClick>>

vars == <<page, detailVersion, listVars, detailVars, copyVars>>

----------------------------------------------------------------------------
(* Bounds *)

MaxArticles == 31   \* longest list the API returns
MaxStrLen == 2      \* longest title / content of the exhaustively drawn articles
MaxQueryLen == 2    \* longest search text typed
MaxChildren == 2    \* most children of a Markdown paragraph
MaxTicks == 6       \* how many steps the clock of the detail page advances

----------------------------------------------------------------------------
(* JavaScript values *)

Undefined == [t |-> "undefined"]

Null == [t |-> "null"]

Str(s) == [t |-> "string", v |-> s]

IsStr(x) == x.t = "string"

Alphabet == {"a", "A", "b"}

RECURSIVE StringsUpTo(_)
StringsUpTo(n) ==
    IF n = 0 THEN {<<>>}
    ELSE LET shorter == StringsUpTo(n - 1)
         IN  shorter \cup {Append(s, c) : s \in {x \in shorter : Len(x) = n - 1}, c \in Alphabet}

\* String.prototype.toLowerCase, one character
ToLowerChar(c) ==
    CASE c = "A" -> "a"
      [] c = "B" -> "b"
      [] OTHER -> c

\* String.prototype.toLowerCase
toLowerCase(s) == [i \in 1..Len(s) |-> ToLowerChar(s[i])]

\* String.prototype.includes
includes(s, k) ==
    \E i \in 0..(Len(s) - Len(k)) : SubSeq(s, i + 1, i + Len(k)) = k

\* Math.ceil(n / d) for non-negative n and positive d
MathCeilDiv(n, d) == IF n % d = 0 THEN n \div d ELSE (n \div d) + 1

Min(a, b) == IF a < b THEN a ELSE b

\* Array.prototype.slice(start, end) with 0-based, non-negative arguments
slice(arr, start, end) ==
    LET from == Min(start, Len(arr))
        to == Min(end, Len(arr))
    IN  IF to <= from THEN <<>> ELSE SubSeq(arr, from + 1, to)

----------------------------------------------------------------------------
(* Timestamps: updatedAt is an ISO date, <<year, month, day>>;             *)
(* new Date(x).getTime() turns it into a number.                           *)

Dates == << <<2024, 12, 31>>, <<2025, 1, 2>>, <<2025, 1, 10>> >>

getTime(d) == ((d[1] * 12) + (d[2] - 1)) * 31 + d[3]

\* variant of the comparator: dateA - dateB
compareUpdatedAt_Ascending(a, b) == getTime(a.updatedAt) - getTime(b.updatedAt)

\* the comparator of fetchArticles: dateB - dateA
compareUpdatedAt(a, b) == getTime(b.updatedAt) - getTime(a.updatedAt)

\* Array.prototype.sort is stable: x goes after every element that does not
\* compare greater than it.
RECURSIVE InsertSorted(_, _)
InsertSorted(sorted, x) ==
    IF sorted = <<>> THEN <<x>>
    ELSE IF compareUpdatedAt(sorted[Len(sorted)], x) <= 0
         THEN Append(sorted, x)
         ELSE Append(InsertSorted(SubSeq(sorted, 1, Len(sorted) - 1), x), sorted[Len(sorted)])

RECURSIVE sort(_)
sort(arr) ==
    IF arr = <<>> THEN <<>>
    ELSE InsertSorted(sort(SubSeq(arr, 1, Len(arr) - 1)), arr[Len(arr)])

----------------------------------------------------------------------------
(* Replies of the content API to the list request *)

DigitChars == <<"0", "1", "2", "3", "4", "5", "6", "7", "8", "9">>

\* a documentId: a string that identifies one article
DocId(i) == <<"d", DigitChars[(i \div 10) + 1], DigitChars[(i % 10) + 1]>>

Item(i, title, content, date) ==
    [id |-> i, documentId |-> DocId(i), title |-> title, content |-> content,
     updatedAt |-> date]

\* a single article: every short title with a missing or null content, and
\* every short content under a title that matches little
SingleItems ==
    {Item(1, Str(t), c, Dates[1]) :
        t \in StringsUpTo(MaxStrLen), c \in {Undefined, Null}}
    \cup {Item(1, Str(t), Str(c), Dates[1]) :
        t \in {<<"b">>}, c \in StringsUpTo(MaxStrLen)}

\* a single article whose title is null or missing
UntitledItems ==
    {Item(1, t, c, Dates[1]) : t \in {Null, Undefined}, c \in {Undefined, Str(<<"a">>)}}

KindTitles == << Str(<<"A", "b">>), Str(<<"b">>), Str(<<"a", "A">>), Str(<<"b", "A", "b">>),
                 Str(<<"a">>), Str(<<>>) >>

KindContents == << Str(<<"b", "a">>), Undefined, Str(<<>>), Str(<<"A", "b">>), Null, Str(<<"a">>) >>

NumKinds == Len(KindTitles)

\* the i-th article of the list drawn with stride v
PatternItem(i, v) ==
    Item(i, KindTitles[((i * v) % NumKinds) + 1],
         KindContents[((i * v + i \div NumKinds) % NumKinds) + 1],
         Dates[((i * (v + 1) + i \div 4) % 3) + 1])

PatternList(n, v) == [i \in 1..n |-> PatternItem(i, v)]

\* a list with one article whose title is null among titled ones
UntitledList ==
    [i \in 1..3 |-> IF i = 2 THEN Item(2, Null, Str(<<"a">>), Dates[2]) ELSE PatternItem(i, 1)]

Strides == {1, 5}

\* json of a reply: { data: [...] }, a body without data, or a failure of
\* fetch() / res.json()
ListReplies ==
    {[kind |-> "json", data |-> <<a>>] : a \in SingleItems \cup UntitledItems}
    \cup {[kind |-> "json", data |-> UntitledList]}
    \cup {[kind |-> "json", data |-> PatternList(n, v)] : n \in 0..MaxArticles, v \in Strides}
    \cup {[kind |-> "nodata"], [kind |-> "throw"], [kind |-> "nullbody"]}

NoReply == [kind |-> "none"]

Queries == StringsUpTo(MaxQueryLen)

----------------------------------------------------------------------------
(* pages/index.tsx: derived values of a render *)

PAGE_SIZE == 15

\* article.title.toLowerCase() throws a TypeError when title is null or
\* missing; article.content?.toLowerCase() does not
matchThrows(article) == ~IsStr(article.title)

\* the predicate of articles.filter, for an article on which it returns
matches(article, query) ==
    LET keyword == toLowerCase(query)
    IN  \/ includes(toLowerCase(article.title.v), keyword)
        \/ /\ IsStr(article.content)
           /\ includes(toLowerCase(article.content.v), keyword)

RECURSIVE filter(_, _)
filter(arr, query) ==
    IF arr = <<>> THEN <<>>
    ELSE LET rest == filter(Tail(arr), query)
         IN  IF matches(Head(arr), query) THEN <<Head(arr)>> \o rest ELSE rest

\* articles.filter calls the predicate on every article, so it throws when
\* the predicate throws on one of them
filterThrows(arr) == \E i \in 1..Len(arr) : matchThrows(arr[i])

\* the filter runs in the body of Home: when it throws, the render throws
\* and nothing of the list page is shown
renderThrows == filterThrows(articles)

\* const filteredArticles; no list is produced by a render that throws
filteredArticles == IF renderThrows THEN <<>> ELSE filter(articles, searchQuery)

\* the list page is mounted and its latest render has returned, so its
\* inputs and buttons are there to be used
listRendered == page = "list" /\ ~renderThrows

totalPagesOf(list) == MathCeilDiv(Len(list), PAGE_SIZE)

totalPages == totalPagesOf(filteredArticles)

\* variant of pageSlice that takes the page number as 0-based
pageSlice_ZeroBased(list, p) == slice(list, p * PAGE_SIZE, (p + 1) * PAGE_SIZE)

pageSlice(list, p) == slice(list, (p - 1) * PAGE_SIZE, p * PAGE_SIZE)

paginatedArticles == pageSlice(filteredArticles, currentPage)

\* the same values in the version of the page without the search box
totalPagesNoSearch == totalPagesOf(articles)

paginatedArticlesNoSearch == pageSlice(articles, currentPage)

\* template literal `/articles/${documentId}`
articleHref(documentId) == <<"/articles/">> \o documentId

\* new Date(updatedAt).toLocaleString(): the date formatted for display
toLocaleString(d) == <<d[1], "/", d[2], "/", d[3]>>

\* one <Link> card of the card view
renderCard(article) ==
    [key |-> article.id, href |-> articleHref(article.documentId),
     title |-> article.title, date |-> toLocaleString(article.updatedAt)]

\* one <li> of the list view
renderListItem(article) ==
    [key |-> article.id, href |-> articleHref(article.documentId),
     title |-> article.title, date |-> toLocaleString(article.updatedAt)]

\* paginatedArticles.map(...) of the card view
cardView ==
    LET shown == paginatedArticles
    IN  [tag |-> "div", entries |-> [i \in 1..Len(shown) |-> renderCard(shown[i])]]

\* paginatedArticles.map(...) of the list view
listView ==
    LET shown == paginatedArticles
    IN  [tag |-> "ul", entries |-> [i \in 1..Len(shown) |-> renderListItem(shown[i])]]

\* viewMode === 'card' ? <div>...</div> : <ul>...</ul>
articleListView == IF viewMode = "card" THEN cardView ELSE listView

----------------------------------------------------------------------------
(* pages/index.tsx: state and handlers *)

NoCall == [fn |-> "none"]

ListInit ==
    /\ lastCall = NoCall
    /\ articles = <<>>
    /\ viewMode = "card"
    /\ currentPage = 1
    /\ searchQuery = <<>>
    /\ fetchState = "mounted"
    /\ requests = 0
    /\ response = NoReply

\* useEffect(..., []) runs once after the mount and calls fetchArticles,
\* which issues the request and awaits the reply
UseEffectFetch ==
    /\ page = "list"
    /\ lastCall' = NoCall
    /\ fetchState = "mounted"
    /\ fetchState' = "pending"
    /\ requests' = requests + 1
    /\ UNCHANGED <<page, detailVersion, detailVars, copyVars, articles, viewMode, currentPage, searchQuery, response>>

\* the try block completes: setArticles(sorted)
FetchResolve(r) ==
    /\ page = "list"
    /\ lastCall' = NoCall
    /\ fetchState = "pending"
    /\ r.kind \in {"json", "nodata"}
    /\ response' = r
    /\ articles' = sort(IF r.kind = "json" THEN r.data ELSE <<>>)
    /\ fetchState' = "loaded"
    /\ UNCHANGED <<page, detailVersion, detailVars, copyVars, viewMode, currentPage, searchQuery, requests>>

\* variant of FetchReject whose catch block resets the search
FetchReject_Reset(r) ==
    /\ page = "list"
    /\ lastCall' = NoCall
    /\ fetchState = "pending"
    /\ r.kind \in {"throw", "nullbody"}
    /\ response' = r
    /\ fetchState' = "failed"
    /\ searchQuery' = <<>>
    /\ currentPage' = 1
    /\ UNCHANGED <<page, detailVersion, detailVars, copyVars, articles, viewMode, requests>>

\* fetch() or res.json() rejects, or the body is null and json.data throws:
\* the catch block logs the error
FetchReject(r) ==
    /\ page = "list"
    /\ lastCall' = NoCall
    /\ fetchState = "pending"
    /\ r.kind \in {"throw", "nullbody"}
    /\ response' = r
    /\ fetchState' = "failed"
    /\ UNCHANGED <<page, detailVersion, detailVars, copyVars, articles, viewMode, currentPage, searchQuery, requests>>

\* variant of OnSearchChange that fetches the articles again
OnSearchChange_Refetch(q) ==
    /\ listRendered
    /\ lastCall' = [fn |-> "onChange", value |-> q]
    /\ searchQuery' = q
    /\ currentPage' = 1
    /\ requests' = requests + 1
    /\ UNCHANGED <<page, detailVersion, detailVars, copyVars, articles, viewMode, fetchState, response>>

\* variant of OnSearchChange that keeps the current page
OnSearchChange_KeepPage(q) ==
    /\ listRendered
    /\ lastCall' = [fn |-> "onChange", value |-> q]
    /\ searchQuery' = q
    /\ UNCHANGED <<page, detailVersion, detailVars, copyVars, articles, viewMode, currentPage, fetchState, requests, response>>

\* onChange of the search input
OnSearchChange(q) ==
    /\ listRendered
    /\ lastCall' = [fn |-> "onChange", value |-> q]
    /\ searchQuery' = q
    /\ currentPage' = 1
    /\ UNCHANGED <<page, detailVersion, detailVars, copyVars, articles, viewMode, fetchState, requests, response>>

\* variant of SetViewMode that also goes back to the first page
SetViewMode_ResetPage(m) ==
    /\ listRendered
    /\ lastCall' = NoCall
    /\ viewMode' = m
    /\ currentPage' = 1
    /\ UNCHANGED <<page, detailVersion, detailVars, copyVars, articles, searchQuery, fetchState, requests, response>>

\* onClick of the two view buttons
SetViewMode(m) ==
    /\ listRendered
    /\ lastCall' = NoCall
    /\ viewMode' = m
    /\ UNCHANGED <<page, detailVersion, detailVars, copyVars, articles, currentPage, searchQuery, fetchState, requests, response>>

\* variant of handlePageChange that moves an out-of-range request to the last page
handlePageChange_Clamp(newPage) ==
    /\ lastCall' = [fn |-> "handlePageChange", newPage |-> newPage]
    /\ currentPage' = IF newPage >= 1 /\ newPage <= totalPages THEN newPage ELSE totalPages
    /\ UNCHANGED <<page, detailVersion, detailVars, copyVars, articles, viewMode, searchQuery, fetchState, requests, response>>

\* variant of handlePageChange without the upper bound
handlePageChange_NoUpperBound(newPage) ==
    /\ lastCall' = [fn |-> "handlePageChange", newPage |-> newPage]
    /\ currentPage' = IF newPage >= 1 THEN newPage ELSE currentPage
    /\ UNCHANGED <<page, detailVersion, detailVars, copyVars, articles, viewMode, searchQuery, fetchState, requests, response>>

\* function handlePageChange(newPage)
handlePageChange(newPage) ==
    /\ lastCall' = [fn |-> "handlePageChange", newPage |-> newPage]
    /\ currentPage' = IF newPage >= 1 /\ newPage <= totalPages THEN newPage ELSE currentPage
    /\ UNCHANGED <<page, detailVersion, detailVars, copyVars, articles, viewMode, searchQuery, fetchState, requests, response>>

prevDisabled == currentPage = 1

nextDisabled == currentPage = totalPages

ClickPrev ==
    /\ listRendered
    /\ ~prevDisabled
    /\ handlePageChange(currentPage - 1)

ClickNext ==
    /\ listRendered
    /\ ~nextDisabled
    /\ handlePageChange(currentPage + 1)

----------------------------------------------------------------------------
(* pages/articles/[id].tsx: the Markdown of an article                     *)
(*                                                                         *)
(* content is Markdown source; it is represented by the tree ReactMarkdown *)
(* parses it into: a sequence of paragraphs, each a sequence of inline     *)
(* nodes with their properties.  A raw node is an HTML tag written in the  *)
(* Markdown source.  A fenced code block is a pre block holding one code   *)
(* node; a code span is a code node among the children of a paragraph.     *)

RecruitUrl == "https://en-gage.net/raisex_jobs/"

Node(type, props, raw) == [type |-> type, props |-> props, raw |-> raw]

NoProps == [k \in {} |-> ""]

\* JSX attributes: a later attribute or spread replaces an earlier one
Merge(base, over) ==
    [k \in DOMAIN base \cup DOMAIN over |-> IF k \in DOMAIN over THEN over[k] ELSE base[k]]

InlineNodes ==
    { Node("text", [value |-> "join us"], FALSE),
      Node("a", [href |-> RecruitUrl], FALSE),
      Node("a", [href |-> RecruitUrl, title |-> "jobs"], FALSE),
      Node("a", [href |-> "https://en-gage.net/raisex_jobs"], FALSE),
      Node("a", [href |-> "https://example.com/"], FALSE),
      Node("strong", NoProps, FALSE),
      Node("img", [src |-> RecruitUrl, alt |-> "banner"], FALSE),
      Node("a", [href |-> "https://example.com/", target |-> "_self", rel |-> "opener"], TRUE) }

RECURSIVE ChildLists(_)
ChildLists(n) ==
    IF n = 0 THEN {<<>>}
    ELSE LET shorter == ChildLists(n - 1)
         IN  shorter \cup {Append(c, x) : c \in {y \in shorter : Len(y) = n - 1}, x \in InlineNodes}

Paragraphs == {[type |-> "p", children |-> c] : c \in ChildLists(MaxChildren) \ {<<>>}}

Markdown(blocks) == [t |-> "markdown", blocks |-> blocks]

Text(s) == [t |-> "string", v |-> s]

\* a code node: its class list holds the language class of a fenced block
\* that names a language, its children the text of the code (none for an
\* empty block)
CodeNode(lang, text) ==
    Node("code",
         Merge(IF lang = "" THEN NoProps ELSE [className |-> <<lang>>],
               IF text = "" THEN NoProps ELSE [children |-> <<Text(text)>>]),
         FALSE)

Fence(lang, text) == [type |-> "pre", children |-> <<CodeNode(lang, text)>>]

CodeSpan(text) == CodeNode("", text)

\* documents with fenced code blocks and code spans
CodeDocs ==
    { Markdown(<<Fence("language-js", "npm run dev")>>),
      Markdown(<<Fence("", "ls")>>),
      Markdown(<<Fence("language-js", "")>>),
      Markdown(<<[type |-> "p", children |-> <<Node("text", [value |-> "run"], FALSE),
                                               CodeSpan("npm i")>>]>>),
      Markdown(<<Fence("language-js", "npm run dev"),
                 [type |-> "p", children |-> <<CodeSpan("npm i")>>]>>),
      Markdown(<<Fence("language-js", "npm run dev"), Fence("", "ls")>>) }

\* documents of one paragraph, one document of two paragraphs, and the
\* documents with code
Docs ==
    {Markdown(<<b>>) : b \in Paragraphs}
    \cup CodeDocs
    \cup {Markdown(<< [type |-> "p", children |-> <<Node("a", [href |-> RecruitUrl], FALSE)>>],
                      [type |-> "p", children |-> <<Node("text", [value |-> "join us"], FALSE),
                                                    Node("a", [href |-> RecruitUrl], FALSE)>>] >>)}

\* rehypePlugins={[rehypeRaw]} is given in part_000 only
usesRehypeRaw(version) == version = "part_000"

\* the React child ReactMarkdown makes of an inline node: a string for text,
\* an element carrying the node's properties otherwise; without rehype-raw
\* an HTML tag of the source is dropped and its text is left
toChild(node, version) ==
    IF node.type = "text" THEN [t |-> "string", v |-> node.props.value]
    ELSE IF node.raw /\ ~usesRehypeRaw(version) THEN [t |-> "string", v |-> "inner text"]
    ELSE IF node.type = "code"
    THEN [t |-> "element", type |-> "code", props |-> Merge(node.props, [inline |-> TRUE])]
    ELSE [t |-> "element", type |-> node.type, props |-> node.props]

toChildren(nodes, version) == [i \in 1..Len(nodes) |-> toChild(nodes[i], version)]

\* the children ReactMarkdown passes to components.pre: an array holding the
\* code element of the block, which is not inline
Arr(elements) == [t |-> "array", v |-> elements]

toPreChildren(block) ==
    Arr([i \in 1..Len(block.children) |->
            [t |-> "element", type |-> "code", props |-> block.children[i].props]])

\* the rest of a destructured props object
Omit(props, keys) == [k \in DOMAIN props \ keys |-> props[k]]

Dom(tag, attrs, children) == [t |-> "dom", tag |-> tag, attrs |-> attrs, children |-> children]

\* components.a: a({ href, children, ...props })
components_a(props) ==
    Dom("a",
        Merge([href |-> props.href, target |-> "_blank", rel |-> "noopener noreferrer",
               className |-> "text-blue-600 underline"],
              Omit(props, {"href", "children"})),
        <<>>)

\* components.img: img({ ...props })
components_img(props) ==
    Dom("img",
        Merge(props, [className |-> "mx-auto my-6 rounded shadow w-auto h-auto max-w-full",
                      alt |-> IF "alt" \in DOMAIN props THEN props.alt ELSE "image"]),
        <<>>)

\* the style object of an inline <code>
inlineCodeStyle(version) ==
    IF version = "id_tsx"
    THEN [backgroundColor |-> "#FEF3C7", color |-> "#B45309", fontFamily |-> "monospace"]
    ELSE [backgroundColor |-> "#fef08a", color |-> "#1f2937", fontFamily |-> "monospace"]

\* the classes the template literal of a block <code> adds to className
blockCodeClasses(version) ==
    IF version = "id_tsx" THEN <<"bg-transparent", "text-sm", "font-mono">>
    ELSE <<"text-sm", "font-mono">>

\* components.code: code({ inline, className, children, ...props })
components_code(props, version) ==
    LET inline == "inline" \in DOMAIN props /\ props.inline
        className == IF "className" \in DOMAIN props THEN props.className ELSE <<>>
        children == IF "children" \in DOMAIN props THEN props.children ELSE <<>>
        rest == Omit(props, {"inline", "className", "children"})
    IN  IF inline
        THEN Dom("code", Merge(rest, [style |-> inlineCodeStyle(version)]), children)
        ELSE Dom("code", Merge([className |-> className \o blockCodeClasses(version)], rest),
                 children)

\* what React renders of one child
renderChild(child, version) ==
    IF child.t = "string" THEN child
    ELSE IF child.type = "a" THEN components_a(child.props)
    ELSE IF child.type = "img" THEN components_img(child.props)
    ELSE IF child.type = "code" THEN components_code(child.props, version)
    ELSE Dom(child.type, child.props, <<>>)

renderChildren(children, version) ==
    [i \in 1..Len(children) |-> renderChild(children[i], version)]

\* the copy button of a code block and its two labels
CopyLabel == "Copy"

CopiedLabel == "Copied!"

copyButton(className) == Dom("button", [className |-> className], <<Text(CopyLabel)>>)

\* components.pre: pre({ children }); [id].tsx reads the class and the text
\* from the props of children and builds its own <code>, part_000 puts
\* children into the <pre>
components_pre(children, version) ==
    IF version = "id_tsx"
    THEN LET childProps == IF children.t = "element" THEN children.props ELSE NoProps
         IN  Dom("div", [className |-> <<"relative", "my-4", "bg-gray-900">>],
                 << copyButton(<<"copy-button", "absolute", "top-2", "right-2">>),
                    Dom("pre", [className |-> <<"p-4", "text-sm">>],
                        << Dom("code",
                               IF "className" \in DOMAIN childProps
                               THEN [className |-> childProps.className] ELSE NoProps,
                               IF "children" \in DOMAIN childProps
                               THEN childProps.children ELSE <<>>) >>) >>)
    ELSE Dom("div", [className |-> <<"relative", "my-6", "bg-gray-900">>],
             << copyButton(<<"copy-button", "absolute", "top-2", "right-2">>),
                Dom("pre", [className |-> <<"p-4", "text-sm">>],
                    renderChildren(children.v, version)) >>)

\* the recruitment banner card of components.p
recruitCard(href) ==
    Dom("div", [className |-> "my-6 border rounded-lg shadow hover:shadow-lg transition overflow-hidden"],
        << Dom("a", [href |-> href, target |-> "_blank", rel |-> "noopener noreferrer",
                     className |-> "flex flex-col sm:flex-row items-stretch no-underline"],
               << Dom("h3", NoProps, <<>>), Dom("p", NoProps, <<>>),
                  Dom("p", NoProps, << [t |-> "string", v |-> href] >>),
                  Dom("img", [src |-> "/recruit-banner.jpg"], <<>>) >>) >>)

hasRecruitHref(child) ==
    /\ child.t = "element"
    /\ "href" \in DOMAIN child.props
    /\ child.props.href = RecruitUrl

\* variant of components.p that looks for the link among all children
components_p_AnyChild(children, version) ==
    IF \E i \in 1..Len(children) : hasRecruitHref(children[i])
    THEN recruitCard(RecruitUrl)
    ELSE Dom("p", NoProps, renderChildren(children, version))

\* components.p: p({ children })
components_p(children, version) ==
    LET child == IF Len(children) >= 1 THEN children[1] ELSE Undefined
        isRecruitLink == hasRecruitHref(child)
    IN  IF isRecruitLink
        THEN recruitCard(child.props.href)
        ELSE Dom("p", NoProps, renderChildren(children, version))

\* a paragraph where no components.p is given
defaultParagraph(children, version) == Dom("p", NoProps, renderChildren(children, version))

hasParagraphRenderer(version) == version = "id_tsx"

renderBlock(block, version) ==
    IF block.type = "pre" THEN components_pre(toPreChildren(block), version)
    ELSE IF hasParagraphRenderer(version)
    THEN components_p(toChildren(block.children, version), version)
    ELSE defaultParagraph(toChildren(block.children, version), version)

\* <ReactMarkdown components={...}>{content}</ReactMarkdown>
ReactMarkdown(content, version) ==
    [i \in 1..Len(content.blocks) |-> renderBlock(content.blocks[i], version)]

----------------------------------------------------------------------------
(* pages/articles/[id].tsx: replies of the content API to the detail request *)

Tag(i, name) == [id |-> i, name |-> name, documentId |-> DocId(90 + i)]

\* item k of a reply; the optional relations tags and thumbnail are either
\* both populated or both absent
DetailItem(k, doc, populated) ==
    [id |-> k, documentId |-> DocId(k), title |-> KindTitles[k], content |-> doc,
     publishedAt |-> Dates[1], updatedAt |-> Dates[k + 1],
     tags |-> IF populated THEN [t |-> "array", v |-> <<Tag(1, "next"), Tag(2, "strapi")>>]
              ELSE Undefined,
     thumbnail |-> IF populated THEN [t |-> "object", url |-> "/uploads/thumb.png"] ELSE Null]

DetailReplies ==
    {[kind |-> "throw"], [kind |-> "nullbody"], [kind |-> "nodata"]}
    \cup {[kind |-> "json", data |-> <<>>]}
    \cup {[kind |-> "json", data |-> <<DetailItem(1, doc, FALSE)>>] : doc \in Docs}
    \cup {[kind |-> "json", data |-> <<DetailItem(2, doc, TRUE), DetailItem(1, doc, FALSE)>>] :
            doc \in {d \in Docs : Len(d.blocks) = 2}}

\* context.params: { id: string }, { id: string[] } of a catch-all route, or
\* no params at all
Params(id) == [t |-> "params", id |-> id]

DirectParams ==
    {Params(Str(DocId(1))), Params(Str(<<"x">>)),
     Params([t |-> "array", v |-> <<Str(DocId(1))>>]), Undefined}

\* the route /articles/[id] takes the rest of the path as params.id
routeParams(href) ==
    IF Len(href) >= 2 /\ href[1] = "/articles/" THEN Params(Str(Tail(href))) ELSE Undefined

----------------------------------------------------------------------------
(* pages/articles/[id].tsx: getServerSideProps and ArticleDetail *)

\* variant of detailUrl that filters on the numeric id
detailUrl_ById(id, version) ==
    <<"http://localhost:1337/api/articles?filters[id][$eq]=">> \o id
    \o << IF version = "id_tsx" THEN "&populate=*"
                                ELSE "&populate[tags]=true&populate[thumbnail]=true" >>

\* the template literal of the fetch
detailUrl(id, version) ==
    <<"http://localhost:1337/api/articles?filters[documentId][$eq]=">> \o id
    \o << IF version = "id_tsx" THEN "&populate=*"
                                ELSE "&populate[tags]=true&populate[thumbnail]=true" >>

\* the article object of the returned props
articleOf(item, version) ==
    IF version = "id_tsx"
    THEN [id |-> item.id, title |-> item.title, content |-> item.content,
          publishedAt |-> item.publishedAt, updatedAt |-> item.updatedAt]
    ELSE [id |-> item.id, title |-> item.title, content |-> item.content,
          publishedAt |-> item.publishedAt, updatedAt |-> item.updatedAt,
          tags |-> IF item.tags.t = "array"
                   THEN [i \in 1..Len(item.tags.v) |->
                            [id |-> item.tags.v[i].id, name |-> item.tags.v[i].name]]
                   ELSE <<>>,
          thumbnailUrl |-> IF item.thumbnail.t = "object"
                           THEN Str(<<"http://localhost:1337", item.thumbnail.url>>)
                           ELSE Undefined]

Returned(article, request) == [threw |-> FALSE, article |-> article, request |-> request]

Thrown(request) == [threw |-> TRUE, article |-> Null, request |-> request]

\* the try block: fetch, res.json(), the check of json.data, the props
tryFetchArticle(id, reply, version) ==
    LET url == detailUrl(id, version)
    IN  IF reply.kind \in {"throw", "nullbody"} THEN Thrown(url)
        ELSE IF reply.kind = "nodata" THEN Returned(Null, url)
        ELSE IF Len(reply.data) = 0 THEN Returned(Null, url)
        ELSE Returned(articleOf(reply.data[1], version), url)

\* variant of getServerSideProps without the catch block
getServerSideProps_NoCatch(context, reply, version) ==
    LET id == IF context.t = "params" THEN context.id ELSE Undefined
    IN  IF ~IsStr(id) THEN Returned(Null, <<>>)
        ELSE tryFetchArticle(id.v, reply, version)

getServerSideProps(context, reply, version) ==
    LET id == IF context.t = "params" THEN context.id ELSE Undefined
    IN  IF ~IsStr(id) THEN Returned(Null, <<>>)
        ELSE LET r == tryFetchArticle(id.v, reply, version)
             IN  IF r.threw THEN Returned(Null, r.request) ELSE r

\* what ArticleDetail renders of its props
ArticleDetail(article, version) ==
    IF article = Null
    THEN [notFound |-> TRUE]
    ELSE IF version = "id_tsx"
    THEN [notFound |-> FALSE, title |-> article.title,
          updatedAt |-> toLocaleString(article.updatedAt),
          body |-> ReactMarkdown(article.content, version)]
    ELSE [notFound |-> FALSE, title |-> article.title,
          updatedAt |-> toLocaleString(article.updatedAt),
          body |-> ReactMarkdown(article.content, version),
          tags |-> [i \in 1..Len(article.tags) |-> article.tags[i].name],
          thumbnail |-> IF IsStr(article.thumbnailUrl) THEN article.thumbnailUrl ELSE Undefined]

NoResult == [threw |-> FALSE, article |-> Null, request |-> <<>>]

DetailIdle ==
    /\ params = Undefined
    /\ loaderState = "idle"
    /\ detailRequest = <<>>
    /\ detailReply = NoReply
    /\ loaderResult = NoResult

\* the page rendered from the props
detailPage == ArticleDetail(loaderResult.article, detailVersion)

\* a request for /articles/... arrives with these params; the list page is
\* unmounted while the detail page is shown
OpenDetail(context) ==
    /\ page' = "detail"
    /\ params' = context
    /\ loaderState' = "requested"
    /\ detailRequest' = <<>>
    /\ detailReply' = NoReply
    /\ loaderResult' = NoResult
    /\ articles' = <<>>
    /\ viewMode' = "card"
    /\ currentPage' = 1
    /\ searchQuery' = <<>>
    /\ fetchState' = "unmounted"
    /\ requests' = 0
    /\ response' = NoReply
    /\ lastCall' = NoCall
    /\ UNCHANGED <<detailVersion, copyVars>>

\* a click on the <Link> of entry i of the list
ClickEntry ==
    /\ listRendered
    /\ LET entries == articleListView.entries
       IN  \E i \in 1..Len(entries) : OpenDetail(routeParams(entries[i].href))

\* the address of a detail page is entered directly
VisitDetail(context) ==
    /\ page = "list"
    /\ OpenDetail(context)

\* getServerSideProps runs with the reply the API gives to its fetch
RunGetServerSideProps ==
    /\ page = "detail"
    /\ loaderState = "requested"
    /\ \E reply \in DetailReplies :
          LET r == getServerSideProps(params, reply, detailVersion)
          IN  /\ loaderResult' = r
              /\ detailRequest' = r.request
              /\ detailReply' = IF r.request = <<>> THEN NoReply ELSE reply
    /\ loaderState' = "done"
    /\ UNCHANGED <<page, detailVersion, params, listVars, copyVars>>

\* a click on the <Link href="/"> of the detail page mounts the list page
BackToList ==
    /\ page = "detail"
    /\ loaderState = "done"
    /\ ~loaderResult.threw
    /\ page' = "list"
    /\ articles' = <<>>
    /\ viewMode' = "card"
    /\ currentPage' = 1
    /\ searchQuery' = <<>>
    /\ fetchState' = "mounted"
    /\ requests' = 0
    /\ response' = NoReply
    /\ lastCall' = NoCall
    /\ params' = Undefined
    /\ loaderState' = "idle"
    /\ detailRequest' = <<>>
    /\ detailReply' = NoReply
    /\ loaderResult' = NoResult
    /\ UNCHANGED <<detailVersion, copyVars>>

----------------------------------------------------------------------------
(* pages/articles/[id].tsx: the click listeners of the copy buttons *)

\* the delay of the setTimeout that restores the label, in ms
REVERT_DELAY == 1500

\* the step of the clock, in ms
TickMs == 500

\* no copy button has been used
CopyIdle ==
    /\ now = 0
    /\ labels = <<>>
    /\ timers = {}
    /\ clipboard = Undefined
    /\ lastClick = <<>>

\* document.querySelectorAll('.copy-button'): the blocks of the rendered
\* article that hold a copy button
copyButtons ==
    IF detailPage.notFound THEN {}
    ELSE {i \in 1..Len(detailPage.body) :
            /\ detailPage.body[i].tag = "div"
            /\ \E k \in 1..Len(detailPage.body[i].children) :
                  /\ detailPage.body[i].children[k].tag = "button"
                  /\ detailPage.body[i].children[k].attrs.className[1] = "copy-button"}

\* textContent of an element that holds at most one text
textContent(dom) == IF dom.children = <<>> THEN "" ELSE dom.children[1].v

\* btn.parentElement?.querySelector('code')?.textContent: the text of the
\* <code> in the container of button b, undefined if it has none
codeOf(b) ==
    LET container == detailPage.body[b]
        pres == {k \in 1..Len(container.children) :
                    /\ container.children[k].tag = "pre"
                    /\ Len(container.children[k].children) >= 1
                    /\ container.children[k].children[1].t = "dom"
                    /\ container.children[k].children[1].tag = "code"}
    IN  IF pres = {} THEN Undefined
        ELSE LET k == CHOOSE k \in pres : \A j \in pres : k <= j
             IN  Text(textContent(container.children[k].children[1]))

\* if (code): a non-empty string
truthy(code) == code # Undefined /\ code.v # ""

\* the detail page of an article with code has been served and mounted, and
\* useEffect has added a click listener to every copy button
CopyInit ==
    /\ page = "detail"
    /\ detailVersion \in {"id_tsx", "part_000"}
    /\ articles = <<>>
    /\ viewMode = "card"
    /\ currentPage = 1
    /\ searchQuery = <<>>
    /\ fetchState = "unmounted"
    /\ requests = 0
    /\ response = NoReply
    /\ lastCall = NoCall
    /\ params = Params(Str(DocId(1)))
    /\ loaderState = "done"
    /\ \E doc \in CodeDocs :
          LET reply == [kind |-> "json", data |-> <<DetailItem(1, doc, FALSE)>>]
              r == getServerSideProps(params, reply, detailVersion)
          IN  /\ detailReply = reply
              /\ loaderResult = r
              /\ detailRequest = r.request
    /\ now = 0
    /\ labels = [b \in copyButtons |-> CopyLabel]
    /\ timers = {}
    /\ clipboard = Undefined
    /\ lastClick = [b \in copyButtons |-> -1]

\* the click listener of copy button b
ClickCopy(b) ==
    /\ page = "detail"
    /\ lastClick' = [lastClick EXCEPT ![b] = now]
    /\ IF truthy(codeOf(b))
       THEN /\ clipboard' = codeOf(b)
            /\ labels' = [labels EXCEPT ![b] = CopiedLabel]
            /\ timers' = timers \cup {[btn |-> b, due |-> now + REVERT_DELAY]}
       ELSE UNCHANGED <<clipboard, labels, timers>>
    /\ UNCHANGED <<page, detailVersion, listVars, detailVars, now>>

\* the callback of a setTimeout runs once its delay has passed, the
\* callbacks in the order of their times
TimerFires ==
    /\ page = "detail"
    /\ \E tm \in timers :
          /\ tm.due <= now
          /\ \A other \in timers : tm.due <= other.due
          /\ labels' = [labels EXCEPT ![tm.btn] = CopyLabel]
          /\ timers' = timers \ {tm}
    /\ UNCHANGED <<page, detailVersion, listVars, detailVars, now, clipboard, lastClick>>

\* time passes while no callback is due
Tick ==
    /\ page = "detail"
    /\ now + TickMs <= MaxTicks * TickMs
    /\ \A tm \in timers : tm.due > now
    /\ now' = now + TickMs
    /\ UNCHANGED <<page, detailVersion, listVars, detailVars, labels, timers, clipboard, lastClick>>

CopyNext ==
    \/ \E b \in DOMAIN labels : ClickCopy(b)
    \/ TimerFires
    \/ Tick

CopySpec == CopyInit /\ [][CopyNext]_vars

----------------------------------------------------------------------------

Init ==
    /\ page = "list"
    /\ detailVersion \in {"id_tsx", "part_000"}
    /\ ListInit
    /\ DetailIdle
    /\ CopyIdle

Next ==
    \/ UseEffectFetch
    \/ \E r \in ListReplies : FetchResolve(r)
    \/ \E r \in ListReplies : FetchReject(r)
    \/ \E q \in Queries : OnSearchChange(q)
    \/ \E m \in {"card", "list"} : SetViewMode(m)
    \/ ClickPrev
    \/ ClickNext
    \/ ClickEntry
    \/ \E context \in DirectParams : VisitDetail(context)
    \/ RunGetServerSideProps
    \/ BackToList

Spec == Init /\ [][Next]_vars

----------------------------------------------------------------------------
(* Claims about the list page *)

RECURSIVE ConcatPages(_, _)
ConcatPages(list, n) ==
    IF n = 0 THEN <<>> ELSE ConcatPages(list, n - 1) \o pageSlice(list, n)

\* the pages 1..totalPagesOf(list) partition the list
PagesPartition(list) ==
    LET n == Len(list)
        tp == totalPagesOf(list)
    IN  /\ tp * 15 >= n
        /\ (tp - 1) * 15 < n \/ (tp = 0 /\ n = 0)
        /\ \A p \in 1..tp :
              LET pg == pageSlice(list, p)
              IN  /\ Len(pg) <= 15
                  /\ Len(pg) >= 1
                  /\ p < tp => Len(pg) = 15
                  /\ \A k \in 1..Len(pg) : pg[k] = list[(p - 1) * 15 + k]
                  /\ Len(pg) < 15 => (p - 1) * 15 + Len(pg) = n
        /\ ConcatPages(list, tp) = list
        /\ \A i \in 1..n :
              Cardinality({pk \in (1..tp) \X (1..15) :
                            /\ pk[2] <= Len(pageSlice(list, pk[1]))
                            /\ pageSlice(list, pk[1])[pk[2]].id = list[i].id}) = 1

\* C1: with PAGE_SIZE = 15 the pages 1..ceil(n/15) of the filtered list each
\* show the slice [(p-1)*15, p*15), hold at most 15 articles and exactly 15
\* except the last, and put together in order they are the filtered list
\* (also in the version of the page that paginates the whole list).
C1_PaginationPartitions ==
    LET all == filteredArticles
    IN  /\ PagesPartition(all)
        /\ PagesPartition(articles)
        /\ currentPage \in 1..totalPagesOf(all) =>
              LET shown == pageSlice(all, currentPage)
              IN  \A k \in 1..Len(shown) : shown[k] = all[(currentPage - 1) * 15 + k]

C1_Witness ==
    /\ searchQuery # <<>>
    /\ Len(filteredArticles) < Len(articles)
    /\ totalPages >= 2
    /\ totalPagesNoSearch = 3
    /\ currentPage = totalPages
    /\ Len(paginatedArticles) \in 1..14

\* two characters are the same letter, whatever their case
SameLetter(c, d) == c = d \/ {c, d} = {"a", "A"} \/ {c, d} = {"b", "B"}

\* s contains q, compared case-insensitively
ContainsIgnoringCase(s, q) ==
    \E i \in 0..(Len(s) - Len(q)) : \A j \in 1..Len(q) : SameLetter(s[i + j], q[j])

Wanted(article, q) ==
    \/ article.title.t = "string" /\ ContainsIgnoringCase(article.title.v, q)
    \/ article.content.t = "string" /\ ContainsIgnoringCase(article.content.v, q)

\* C2: the filtered list holds exactly the loaded articles whose title or
\* content contains the query case-insensitively, in the order of the loaded
\* list; with the empty query it is the whole loaded list.
C2_SearchFilter ==
    LET hits == {i \in 1..Len(articles) : Wanted(articles[i], searchQuery)}
    IN  /\ Len(filteredArticles) = Cardinality(hits)
        /\ \A i \in hits :
              filteredArticles[Cardinality({j \in hits : j <= i})] = articles[i]
        /\ searchQuery = <<>> => filteredArticles = articles

\* date d is the same day as e or a later one
NotOlder(d, e) ==
    \/ d[1] > e[1]
    \/ d[1] = e[1] /\ d[2] > e[2]
    \/ d[1] = e[1] /\ d[2] = e[2] /\ d[3] >= e[3]

returnedData == IF response.kind = "json" THEN response.data ELSE <<>>

\* C3: after a successful fetch the stored list is a permutation of the
\* returned `data`, ordered by updatedAt newest first; a reply without `data`
\* gives the empty list.
C3_SortedPermutation ==
    fetchState = "loaded" =>
        /\ Len(articles) = Len(returnedData)
        /\ \A j \in 1..Len(returnedData) :
              Cardinality({i \in 1..Len(articles) : articles[i] = returnedData[j]}) = 1
        /\ \A i \in 1..(Len(articles) - 1) :
              NotOlder(articles[i].updatedAt, articles[i + 1].updatedAt)
        /\ response.kind = "nodata" => articles = <<>>

C3_Witness ==
    /\ fetchState = "loaded"
    /\ Len(articles) >= 3
    /\ articles # returnedData
    /\ \E i \in 1..(Len(articles) - 1) : articles[i].updatedAt = articles[i + 1].updatedAt
    /\ \E i \in 1..(Len(articles) - 1) : articles[i].updatedAt # articles[i + 1].updatedAt

\* C4: the view toggle changes only the view mode, both views render the
\* same paginated articles in the same order, and the page starts in 'card'.
C4_ViewToggle ==
    /\ viewMode = "card"
    /\ [][(page = "list" /\ page' = "list" /\ viewMode' # viewMode) =>
            /\ articles' = articles
            /\ searchQuery' = searchQuery
            /\ currentPage' = currentPage]_vars
    /\ [](LET shown == paginatedArticles
              cards == cardView.entries
              items == listView.entries
          IN  /\ Len(cards) = Len(shown)
              /\ Len(items) = Len(shown)
              /\ \A i \in 1..Len(shown) :
                    /\ cards[i].key = shown[i].id
                    /\ items[i].key = shown[i].id
                    /\ cards[i].title = items[i].title
                    /\ cards[i].href = items[i].href
              /\ articleListView.entries \in {cards, items})

C4_Witness ==
    /\ viewMode = "list"
    /\ currentPage = 2
    /\ searchQuery # <<>>
    /\ Len(paginatedArticles) >= 2

\* C5: the list page requests the API once per mount, and no search input,
\* page change or view toggle issues a request or changes the loaded list.
C5_SingleFetch ==
    /\ [](page = "list" =>
            /\ fetchState = "mounted" => requests = 0
            /\ fetchState # "mounted" => requests = 1)
    /\ [][(page = "list" /\ page' = "list") =>
            /\ requests' # requests => (fetchState = "mounted" /\ fetchState' = "pending")
            /\ (searchQuery' # searchQuery \/ currentPage' # currentPage \/ viewMode' # viewMode)
                  => (requests' = requests /\ articles' = articles)]_vars

C5_Witness ==
    /\ requests = 1
    /\ fetchState = "loaded"
    /\ currentPage = 2
    /\ viewMode = "list"
    /\ searchQuery # <<>>

\* C6: when the fetch or the JSON parsing fails the error is caught: the
\* article list (still empty), the current page, the search query and the
\* view mode keep their values, the page still renders, and nothing retries.
C6_FetchFailure ==
    /\ [][(fetchState = "pending" /\ fetchState' = "failed") =>
            /\ articles' = articles
            /\ currentPage' = currentPage
            /\ searchQuery' = searchQuery
            /\ viewMode' = viewMode
            /\ requests' = requests
            /\ page' = "list"]_vars
    /\ [][(fetchState = "failed" /\ page' = "list") =>
            (fetchState' = "failed" /\ requests' = requests /\ articles' = articles)]_vars
    /\ [](fetchState = "failed" =>
            /\ response.kind \in {"throw", "nullbody"}
            /\ articles = <<>>
            /\ requests = 1
            /\ articleListView.entries = <<>>)
    /\ [](response.kind \in {"throw", "nullbody"} => fetchState = "failed")

C6_Witness ==
    /\ fetchState = "failed"
    /\ searchQuery # <<>>
    /\ viewMode = "list"

----------------------------------------------------------------------------
(* Claims about the detail page *)

idIsString == params # Undefined /\ params.id.t = "string"

replyHasItem == detailReply.kind = "json" /\ Len(detailReply.data) >= 1

\* C7: getServerSideProps never lets an exception out and returns
\* article = null exactly when the route id is not a string, the fetch or the
\* JSON parsing throws, or the reply has no `data` or an empty `data`; the
\* page then renders the not-found message only.
C7_LoaderNull ==
    loaderState = "done" =>
        /\ ~loaderResult.threw
        /\ (loaderResult.article = Null) <=>
              \/ ~idIsString
              \/ detailReply.kind \in {"throw", "nullbody", "nodata"}
              \/ detailReply.kind = "json" /\ detailReply.data = <<>>
        /\ loaderResult.article = Null => detailPage = [notFound |-> TRUE]
        /\ loaderResult.article # Null =>
              (~detailPage.notFound /\ Len(detailPage.body) >= 1)

C7_Witness ==
    /\ loaderState = "done"
    /\ idIsString
    /\ detailReply.kind = "throw"
    /\ loaderResult.article = Null
    /\ detailPage = [notFound |-> TRUE]

startsWithRecruitLink(paragraph) ==
    /\ Len(paragraph.children) >= 1
    /\ paragraph.children[1].type = "a"
    /\ ~paragraph.children[1].raw
    /\ paragraph.children[1].props.href = "https://en-gage.net/raisex_jobs/"

isCard(dom) ==
    /\ dom.tag = "div"
    /\ Len(dom.children) = 1
    /\ dom.children[1].tag = "a"
    /\ dom.children[1].attrs.href = "https://en-gage.net/raisex_jobs/"

\* C9: in the Markdown renderer of [id].tsx a paragraph becomes the
\* recruitment banner card if and only if its first child is a link whose
\* href is exactly the recruitment URL; the card replaces the whole
\* paragraph, and any other paragraph is a plain paragraph with all its
\* children.
C9_RecruitCard ==
    (loaderState = "done" /\ detailVersion = "id_tsx" /\ loaderResult.article # Null) =>
        LET blocks == loaderResult.article.content.blocks
            body == detailPage.body
        IN  /\ Len(body) = Len(blocks)
            /\ \A i \in {k \in 1..Len(blocks) : blocks[k].type = "p"} :
                  /\ isCard(body[i]) <=> startsWithRecruitLink(blocks[i])
                  /\ startsWithRecruitLink(blocks[i]) =>
                        body[i] = recruitCard("https://en-gage.net/raisex_jobs/")
                  /\ ~startsWithRecruitLink(blocks[i]) =>
                        /\ body[i].tag = "p"
                        /\ Len(body[i].children) = Len(blocks[i].children)
                        /\ \A j \in 1..Len(blocks[i].children) :
                              LET node == blocks[i].children[j]
                                  out == body[i].children[j]
                              IN  IF node.type = "text" THEN out.v = node.props.value
                                  ELSE IF node.raw THEN out.t = "string"
                                  ELSE IF node.type = "code"
                                  THEN out.tag = "code" /\ out.children = node.props.children
                                  ELSE /\ out.tag = node.type
                                       /\ \A k \in DOMAIN node.props : out.attrs[k] = node.props[k]

C9_Witness ==
    /\ loaderState = "done"
    /\ detailVersion = "id_tsx"
    /\ loaderResult.article # Null
    /\ Len(detailPage.body) = 2
    /\ isCard(detailPage.body[1])
    /\ ~isCard(detailPage.body[2])
    /\ \E j \in 1..Len(detailPage.body[2].children) :
          /\ detailPage.body[2].children[j].t = "dom"
          /\ detailPage.body[2].children[j].tag = "a"
          /\ detailPage.body[2].children[j].attrs.href = "https://en-gage.net/raisex_jobs/"

\* C10: every link the custom link renderer produces from the Markdown of
\* an article keeps the source href and carries target="_blank" and
\* rel="noopener noreferrer"; no property of the Markdown link replaces them.
C10_LinksOpenSafely ==
    (loaderState = "done" /\ loaderResult.article # Null) =>
        LET blocks == loaderResult.article.content.blocks
            body == detailPage.body
        IN  \A i \in 1..Len(blocks) :
                body[i].tag = "p" =>
                    \A j \in 1..Len(blocks[i].children) :
                        LET node == blocks[i].children[j]
                            out == body[i].children[j]
                        IN  (out.t = "dom" /\ out.tag = "a") =>
                                /\ out.attrs.href = node.props.href
                                /\ out.attrs.target = "_blank"
                                /\ out.attrs.rel = "noopener noreferrer"

----------------------------------------------------------------------------
(* Claims about the pagination controls of the list page *)

inRange(newPage) == newPage >= 1 /\ newPage <= totalPages

\* C12: handlePageChange(newPage) sets the current page to newPage if and
\* only if 1 <= newPage <= totalPages, totalPages being computed from the
\* filtered list at the moment of the call; for any other newPage it leaves
\* the current page unchanged; the search query, the view mode and the
\* article list are unchanged in both cases.
C12_HandlePageChange ==
    [][(page' = "list" /\ lastCall'.fn = "handlePageChange") =>
          LET newPage == lastCall'.newPage
          IN  /\ inRange(newPage) => currentPage' = newPage
              /\ ~inRange(newPage) => (currentPage' = currentPage /\ currentPage' # newPage)
              /\ UNCHANGED <<searchQuery, viewMode, articles>>]_vars

C12_Witness ==
    /\ page = "list"
    /\ lastCall.fn = "handlePageChange"
    /\ lastCall.newPage > totalPages
    /\ currentPage = lastCall.newPage - 1

\* C13: every change of the search input, whatever the page and the query
\* before, sets the search query to the new text and the current page to 1
\* in the same update, and what is shown next is the first page of the new
\* filtered list.
C13_SearchResetsPage ==
    (page = "list" /\ lastCall.fn = "onChange") =>
        LET filtered == filteredArticles
        IN  /\ searchQuery = lastCall.value
            /\ currentPage = 1
            /\ pageSlice(filtered, currentPage) = slice(filtered, 0, PAGE_SIZE)

C13_Witness ==
    /\ page = "list"
    /\ lastCall.fn = "onChange"
    /\ Len(lastCall.value) >= 1
    /\ Len(articles) > 2 * PAGE_SIZE
    /\ Len(paginatedArticles) \in 1..(PAGE_SIZE - 1)

Max(a, b) == IF a >= b THEN a ELSE b

\* C14: in every reachable state of the list page the current page is at
\* least 1 and at most max(1, totalPages); so whenever the filtered list is
\* not empty the page shown holds at least one article.
C14_PageInRange ==
    page = "list" =>
        LET filtered == filteredArticles
        IN  /\ 1 <= currentPage
            /\ currentPage <= Max(1, totalPagesOf(filtered))
            /\ Len(filtered) > 0 => Len(pageSlice(filtered, currentPage)) >= 1

C14_Witness ==
    /\ page = "list"
    /\ lastCall.fn = "handlePageChange"
    /\ totalPages >= 2
    /\ currentPage = totalPages
    /\ searchQuery # <<>>
    /\ Len(paginatedArticles) >= 1

\* C15: each pagination button is disabled exactly when a click on it would
\* not change the page: "previous" if and only if there is no page before
\* the current one, "next" if and only if there is no page after it, also
\* when the filtered list is empty and totalPages is 0.
C15_ButtonsDisabled ==
    page = "list" =>
        /\ prevDisabled <=> ~(currentPage - 1 >= 1)
        /\ nextDisabled <=> ~(currentPage + 1 <= totalPages)

\* C16: the search filter evaluates without error for every article the API
\* can return and every query: an article without content is matched on its
\* title alone, and an article whose title or content is null or missing
\* never makes the filter throw, so the list page is always rendered.
C16_FilterNeverThrows ==
    page = "list" =>
        /\ ~renderThrows
        /\ \A i \in 1..Len(articles) :
              ~IsStr(articles[i].content) =>
                  ((\E j \in 1..Len(filteredArticles) : filteredArticles[j] = articles[i])
                      <=> Wanted(articles[i], searchQuery))

----------------------------------------------------------------------------
(* Claims about the props of the detail page *)

\* C17: the props the detail loader returns hold only JSON-serializable
\* values, no field of article being undefined; in the version that maps
\* tags and thumbnail, tags is always an array, empty when the item has no
\* tag array, and thumbnailUrl is "http://localhost:1337" + thumbnail.url
\* when the item has a thumbnail url and is otherwise not there as an
\* undefined value.
C17_PropsSerializable ==
    (loaderState = "done" /\ loaderResult.article # Null) =>
        LET article == loaderResult.article
            item == detailReply.data[1]
        IN  /\ article.title # Undefined
            /\ article.content # Undefined
            /\ detailVersion = "part_000" =>
                  /\ Len(article.tags) = (IF item.tags.t = "array" THEN Len(item.tags.v) ELSE 0)
                  /\ \A i \in 1..Len(article.tags) :
                        /\ article.tags[i].id = item.tags.v[i].id
                        /\ article.tags[i].name = item.tags.v[i].name
                  /\ item.thumbnail.t = "object" =>
                        article.thumbnailUrl = Str(<<"http://localhost:1337", item.thumbnail.url>>)
                  /\ "thumbnailUrl" \in DOMAIN article => article.thumbnailUrl # Undefined

----------------------------------------------------------------------------
(* Claims about code blocks and the copy button *)

isCopyButton(dom) ==
    /\ dom.t = "dom"
    /\ dom.tag = "button"
    /\ \E k \in 1..Len(dom.attrs.className) : dom.attrs.className[k] = "copy-button"

\* the <code> elements directly inside the <pre> elements of a container
codeElementsOf(container) ==
    {<<a, b>> \in (1..Len(container.children)) \X (1..MaxChildren + 1) :
        /\ container.children[a].tag = "pre"
        /\ b <= Len(container.children[a].children)
        /\ container.children[a].children[b].t = "dom"
        /\ container.children[a].children[b].tag = "code"}

holdsCode(container, node) ==
    \E ab \in codeElementsOf(container) :
        LET code == container.children[ab[1]].children[ab[2]]
        IN  /\ code.children = (IF "children" \in DOMAIN node.props
                                THEN node.props.children ELSE <<>>)
            /\ "className" \in DOMAIN node.props =>
                  /\ "className" \in DOMAIN code.attrs
                  /\ \E k \in 1..Len(code.attrs.className) :
                        code.attrs.className[k] = node.props.className[1]

\* C11: every fenced code block of the article is rendered as a container
\* that holds exactly one copy button and the code text and language class
\* of the block; every code span is rendered with the highlight style and
\* without a copy button.
C11_CodeRendering ==
    (loaderState = "done" /\ loaderResult.article # Null) =>
        LET blocks == loaderResult.article.content.blocks
            body == detailPage.body
        IN  \A i \in 1..Len(blocks) :
                /\ blocks[i].type = "pre" =>
                      /\ body[i].tag = "div"
                      /\ Cardinality({k \in 1..Len(body[i].children) :
                                         isCopyButton(body[i].children[k])}) = 1
                      /\ holdsCode(body[i], blocks[i].children[1])
                /\ (blocks[i].type = "p" /\ body[i].tag = "p") =>
                      \A j \in 1..Len(blocks[i].children) :
                          blocks[i].children[j].type = "code" =>
                              LET out == body[i].children[j]
                              IN  /\ out.tag = "code"
                                  /\ "style" \in DOMAIN out.attrs
                                  /\ out.attrs.style = inlineCodeStyle(detailVersion)
                                  /\ out.children = blocks[i].children[j].props.children
                                  /\ \A k \in 1..Len(body[i].children) :
                                        ~isCopyButton(body[i].children[k])

\* C18: a click on a copy button whose block has code text writes that text
\* to the clipboard and sets the label to "Copied!"; the label stays
\* "Copied!" until 1500 ms after the latest click on that button and is
\* "Copy" again afterwards, so it is never "Copy" while the timer of the
\* latest click is pending; a click on a button without code text changes
\* nothing.
C18_CopyFeedback ==
    \A b \in DOMAIN labels :
        IF truthy(codeOf(b))
        THEN /\ lastClick[b] < 0 => labels[b] = CopyLabel
             /\ lastClick[b] >= 0 =>
                   /\ \E c \in DOMAIN labels : lastClick[c] >= 0 /\ clipboard = codeOf(c)
                   /\ (\A c \in DOMAIN labels : lastClick[c] <= lastClick[b] /\ (c # b => lastClick[c] < lastClick[b]))
                         => clipboard = codeOf(b)
                   /\ now < lastClick[b] + REVERT_DELAY => labels[b] = CopiedLabel
                   /\ now > lastClick[b] + REVERT_DELAY => labels[b] = CopyLabel
                   /\ [btn |-> b, due |-> lastClick[b] + REVERT_DELAY] \in timers
                         => labels[b] = CopiedLabel
        ELSE /\ labels[b] = CopyLabel
             /\ \A tm \in timers : tm.btn # b

====
